---- MODULE Spec2Model ----
(***************************************************************************)
(* A model of the v1 computer-use server: the coordinate mapper            *)
(* (src/v1/orchestrator.py map_coords_from_claude), the desktop agent      *)
(* (src/v1/agent.py DesktopAgent), the remote client's conversation        *)
(* history (src/v1/claude_client.py) and the /task loop and /action        *)
(* endpoint of src/v1/orchestrator.py; with them the action logger         *)
(* (src/logger.py), the scaler of src/agent.py and the v2 agent            *)
(* (src/v2/agent.py press_key, src/v2/main.py ComputerUseAgent.run).       *)
(*                                                                         *)
(* The specifications share the variables:                                 *)
(*   Spec      the server: startup, one /task invocation, display changes  *)
(*   SpecLive  Spec, with the request handler running to its end           *)
(*   SpecAgent the server answering /action requests only                  *)
(*   SpecAsync the server with websocket observers and overlapping /task   *)
(*             invocations on one event loop                               *)
(*   SpecMap   map_coords_from_claude applied to bounded inputs            *)
(*   SpecScale DesktopAgent.screenshot's scaler applied to bounded inputs, *)
(*             beside the scaler of src/agent.py, then the mapper on the   *)
(*             canvas it computed                                          *)
(*   SpecKeys  src/v2/agent.py DesktopAgent.press_key                      *)
(*   SpecLog   src/logger.py ActionLogger.log_action                       *)
(*   SpecRun   src/v2/main.py ComputerUseAgent.run                         *)
(***************************************************************************)
EXTENDS Integers, Sequences, FiniteSets, TLC

VARIABLES
    pc,             \* position of the server: "boot", "idle", "loop", "exec", "except", "done"
    screen,         \* pyautogui.size(): the logical screen <<w, h>> (environment)
    claude_screen,  \* globals claude_screen_width, claude_screen_height
    tools_display,  \* claude_client.tools[0] display_width_px, display_height_px
    client_ready,   \* claude_client is not None
    action_count,   \* DesktopAgent.action_count
    os_calls,       \* the pyautogui input calls made so far by the current request
    messages,       \* claude_client.messages, the conversation history
    max_iterations, \* task_request.max_iterations
    iterations,     \* local iterations of execute_task
    task_complete,  \* local task_complete of execute_task
    idx,            \* position of the for loop over response["tool_uses"]
    tool_results,   \* local tool_results of execute_task
    execution_log,  \* local execution_log of execute_task
    session_log,    \* the events ActionLogger wrote to the session file
    outcome,        \* what the request handler gave its caller
    last_shot,      \* size of the most recent screenshot sent to the model
    probe,          \* observations of the current run that are not program state
    map_in,         \* SpecMap: the arguments of map_coords_from_claude
    map_out,        \* SpecMap: its result, <<>> before the call
    scale_in,       \* SpecScale: the display a screenshot is taken of
    scale_out,      \* SpecScale: what screenshot() computed for it
    key_in,         \* SpecKeys: key_sequence, as its '+'-separated parts
    key_events,     \* SpecKeys: the pyautogui.keyDown / keyUp calls made, in order
    key_out,        \* SpecKeys: whether press_key was called and whether it raised
    active_connections, \* SpecAsync: the global list active_connections
    ws,             \* SpecAsync: position of each websocket_endpoint handler
    frames,         \* SpecAsync: the locals of each execute_task handler
    running,        \* SpecAsync: the handler the event loop is running, 0 when none
    owners,         \* SpecAsync: for each message of the history, the task that added it
    last_request,   \* SpecAsync: the task and history of the last remote request
    log_in,         \* SpecLog: the result dict the caller passed to log_action last
    actions,        \* SpecLog: ActionLogger.actions
    action_log,     \* SpecLog: the entries log_action wrote to the session file
    run_pc,         \* SpecRun: position of ComputerUseAgent.run
    iteration,      \* SpecRun: local iteration of run
    run_messages,   \* SpecRun: self.messages, by role and kind
    run_events      \* SpecRun: the event types SessionLogger wrote, in order

vars == <<pc, screen, claude_screen, tools_display, client_ready, action_count,
          os_calls, messages, max_iterations, iterations, task_complete, idx,
          tool_results, execution_log, session_log, outcome, last_shot, probe,
          map_in, map_out, scale_in, scale_out, key_in, key_events, key_out,
          active_connections, ws, frames, running, owners, last_request,
          log_in, actions, action_log, run_pc, iteration, run_messages, run_events>>

(***************************************************************************)
(* Bounds of the model and constants of the program.                       *)
(***************************************************************************)
MaxIterations == 2   \* the largest max_iterations a task is started with
MaxDim == 3          \* SpecMap: the largest canvas or screen side enumerated
MaxScreenChanges == 1  \* the number of display changes in one run
MaxActions == 1      \* SpecAgent: the number of /action requests served
MaxAsyncIterations == 1  \* SpecAsync: the largest max_iterations of a task

MAX_WIDTH == 1280
MAX_HEIGHT == 800
DEFAULT_CLAUDE_WIDTH == 1231
DEFAULT_CLAUDE_HEIGHT == 800

(***************************************************************************)
(* Python arithmetic.                                                      *)
(***************************************************************************)
Max(a, b) == IF a >= b THEN a ELSE b
Min(a, b) == IF a <= b THEN a ELSE b

\* int(round(n / d)) for n >= 0, d > 0, where n / d was computed in floating
\* point as a product with a rounded factor.  Away from a tie the nearest
\* integer is returned.  On an exact tie q + 1/2 the floating-point product may
\* fall on either side (7 * (29 / 14) gives 15, 11 * (15 / 22) gives 7), so the
\* outcome is the parameter up: FALSE for q, TRUE for q + 1.
RoundFloat(n, d, up) ==
    LET q == n \div d
        r == n % d
    IN  IF 2 * r < d THEN q
        ELSE IF 2 * r > d THEN q + 1
        ELSE IF up THEN q + 1 ELSE q

(***************************************************************************)
(* orchestrator.py: map_coords_from_claude.  tx, ty: the tie outcomes of   *)
(* the two roundings.                                                      *)
(***************************************************************************)
\* the mapper without step 1, the clamp to the canvas
map_coords_input_unclamped(x_c, y_c, claude_w, claude_h, logical_w, logical_h, tx, ty) ==
    LET x_l == RoundFloat(Max(0, x_c) * logical_w, claude_w, tx)
        y_l == RoundFloat(Max(0, y_c) * logical_h, claude_h, ty)
    IN  <<Max(0, Min(x_l, logical_w - 1)), Max(0, Min(y_l, logical_h - 1))>>

\* the mapper with step 1 clamping to the canvas size instead of size - 1
map_coords_clamp_to_size(x_c, y_c, claude_w, claude_h, logical_w, logical_h, tx, ty) ==
    LET x_l == RoundFloat(Max(0, Min(x_c, claude_w)) * logical_w, claude_w, tx)
        y_l == RoundFloat(Max(0, Min(y_c, claude_h)) * logical_h, claude_h, ty)
    IN  <<Max(0, Min(x_l, logical_w - 1)), Max(0, Min(y_l, logical_h - 1))>>

map_coords_from_claude(x_c, y_c, claude_w, claude_h, logical_w, logical_h, tx, ty) ==
    LET x_c_clamped == Max(0, Min(x_c, claude_w - 1))
        y_c_clamped == Max(0, Min(y_c, claude_h - 1))
        x_l == RoundFloat(x_c_clamped * logical_w, claude_w, tx)
        y_l == RoundFloat(y_c_clamped * logical_h, claude_h, ty)
        x_l_clamped == Max(0, Min(x_l, logical_w - 1))
        y_l_clamped == Max(0, Min(y_l, logical_h - 1))
    IN  <<x_l_clamped, y_l_clamped>>

(***************************************************************************)
(* agent.py: DesktopAgent.  Every method is an operator from its arguments *)
(* and the environment (the logical screen scr, whether the pyautogui call *)
(* raises, whether writing the screenshot file raises) to                  *)
(*   raised  the method raised instead of returning                        *)
(*   result  the dict it returned                                          *)
(*   os      the pyautogui input calls it made                             *)
(*   inc     what it added to action_count                                 *)
(***************************************************************************)
NoResult == [type |-> "none", has_success |-> FALSE, success |-> FALSE,
             error |-> FALSE, w |-> 0, h |-> 0]

\* a returned dict: its "type", whether it has a "success" key and its value,
\* whether it has an "error" key, and "width", "height" of a screenshot
Res(t, s, e) == [type |-> t, has_success |-> TRUE, success |-> s,
                 error |-> e, w |-> 0, h |-> 0]

\* a pyautogui input call, with the logical screen in force when it was made
OsCall(op, x, y, button, clicks, scr) ==
    [op |-> op, x |-> x, y |-> y, button |-> button, clicks |-> clicks, scr |-> scr]

Returned(r, os, inc) == [raised |-> FALSE, result |-> r, os |-> os, inc |-> inc]
Raised == [raised |-> TRUE, result |-> NoResult, os |-> <<>>, inc |-> 0]

\* the scaled size cut to an integer without rounding
ScaledSize_truncated(scr, tie) ==
    IF MAX_WIDTH * scr[2] <= MAX_HEIGHT * scr[1]
    THEN <<MAX_WIDTH, (scr[2] * MAX_WIDTH) \div scr[1]>>
    ELSE <<(scr[1] * MAX_HEIGHT) \div scr[2], MAX_HEIGHT>>

\* screenshot(): the size the frame is resized to (diagnostic_mode is False)
ScaledSize(scr, tie) ==
    LET logical_width == scr[1]
        logical_height == scr[2]
    IN  IF MAX_WIDTH * logical_height <= MAX_HEIGHT * logical_width
        THEN \* scale_down = MAX_WIDTH / logical_width
             <<RoundFloat(logical_width * MAX_WIDTH, logical_width, tie),
               RoundFloat(logical_height * MAX_WIDTH, logical_width, tie)>>
        ELSE \* scale_down = MAX_HEIGHT / logical_height
             <<RoundFloat(logical_width * MAX_HEIGHT, logical_height, tie),
               RoundFloat(logical_height * MAX_HEIGHT, logical_height, tie)>>

\* the frame sent at full resolution whatever the mode
screenshot_frame_diagnostic(physical, scr, diagnostic_mode, tie) == physical

\* lines 38-87: screenshot.size of the frame that is saved and encoded, from
\* the size of the captured frame and the logical screen
screenshot_frame(physical, scr, diagnostic_mode, tie) ==
    IF diagnostic_mode THEN physical ELSE ScaledSize(scr, tie)

screenshot(scr, save_fails, tie) ==
    LET size == ScaledSize(scr, tie)
    IN  IF size[2] = 0 \/ size[1] = 0 \/ save_fails
        THEN Raised  \* ZeroDivisionError, resize or screenshot.save: no try
        ELSE Returned([type |-> "screenshot", has_success |-> FALSE,
                       success |-> FALSE, error |-> FALSE,
                       w |-> size[1], h |-> size[2]], <<>>, 1)

\* click without its try: what pyautogui.click raises leaves the method
click_unguarded(x, y, button, clicks, scr, os_fails) ==
    IF ~(0 <= x /\ x <= scr[1] /\ 0 <= y /\ y <= scr[2])
    THEN Returned(Res("click", FALSE, TRUE), <<>>, 0)
    ELSE IF os_fails
    THEN [Raised EXCEPT !.os = <<OsCall("click", x, y, button, clicks, scr)>>]
    ELSE Returned(Res("click", TRUE, FALSE), <<OsCall("click", x, y, button, clicks, scr)>>, 1)

click(x, y, button, clicks, scr, os_fails) ==
    IF ~(0 <= x /\ x <= scr[1] /\ 0 <= y /\ y <= scr[2])
    THEN Returned(Res("click", FALSE, TRUE), <<>>, 0)
    ELSE IF os_fails
    THEN Returned(Res("click", FALSE, TRUE), <<OsCall("click", x, y, button, clicks, scr)>>, 0)
    ELSE Returned(Res("click", TRUE, FALSE), <<OsCall("click", x, y, button, clicks, scr)>>, 1)

\* text is the list of '+'-separated parts of the string; <<>> is None
type_text(text, scr, os_fails) ==
    IF text = <<>> \/ os_fails
    THEN Returned(Res("type", FALSE, TRUE),
                  IF text = <<>> THEN <<>> ELSE <<OsCall("write", 0, 0, "", 0, scr)>>, 0)
    ELSE Returned(Res("type", TRUE, FALSE), <<OsCall("write", 0, 0, "", 0, scr)>>, 1)

key_press(key, scr, os_fails) ==
    LET op == IF Len(key) > 1 THEN "hotkey" ELSE "press"
    IN  IF key = <<>>
        THEN Returned(Res("key_press", FALSE, TRUE), <<>>, 0)  \* '+' in None raises
        ELSE IF os_fails
        THEN Returned(Res("key_press", FALSE, TRUE), <<OsCall(op, 0, 0, "", 0, scr)>>, 0)
        ELSE Returned(Res("key_press", TRUE, FALSE), <<OsCall(op, 0, 0, "", 0, scr)>>, 1)

move_mouse(x, y, scr, os_fails) ==
    IF ~(0 <= x /\ x <= scr[1] /\ 0 <= y /\ y <= scr[2])
    THEN Returned(Res("move_mouse", FALSE, TRUE), <<>>, 0)
    ELSE IF os_fails
    THEN Returned(Res("move_mouse", FALSE, TRUE), <<OsCall("moveTo", x, y, "", 0, scr)>>, 0)
    ELSE Returned(Res("move_mouse", TRUE, FALSE), <<OsCall("moveTo", x, y, "", 0, scr)>>, 1)

\* An action dict is a record: "action", and the optional keys "coordinate"
\* and "text"; a key may be missing (not in DOMAIN) or hold None (<<>>).
HasKey(d, k) == k \in DOMAIN d

\* an unknown action type raising instead of returning the error dict
unknown_action_raises(action_type) == Raised

\* lines 266-271: the else branch of execute_action
unknown_action(action_type) == Returned(Res("error", FALSE, TRUE), <<>>, 0)

execute_action(action, scr, os_fails, save_fails, tie) ==
    LET action_type == action.action
        c == IF HasKey(action, "coordinate") THEN action.coordinate ELSE <<>>
    IN  IF action_type = "screenshot" THEN screenshot(scr, save_fails, tie)
        ELSE IF action_type \in {"mouse_move", "left_click", "right_click", "double_click"}
        THEN IF ~HasKey(action, "coordinate") \/ c = <<>>
             THEN Raised  \* action["coordinate"][0]: KeyError, TypeError
             ELSE IF action_type = "mouse_move" THEN move_mouse(c[1], c[2], scr, os_fails)
             ELSE IF action_type = "left_click" THEN click(c[1], c[2], "left", 1, scr, os_fails)
             ELSE IF action_type = "right_click" THEN click(c[1], c[2], "right", 1, scr, os_fails)
             ELSE click(c[1], c[2], "left", 2, scr, os_fails)
        ELSE IF action_type \in {"type", "key"}
        THEN IF ~HasKey(action, "text") THEN Raised  \* action["text"]: KeyError
             ELSE IF action_type = "type" THEN type_text(action.text, scr, os_fails)
             ELSE key_press(action.text, scr, os_fails)
        ELSE unknown_action(action_type)

(***************************************************************************)
(* The environment: the displays the machine may have, and what pyautogui  *)
(* and the file system do to one call.                                     *)
(***************************************************************************)
ScreenSizes == {<<1512, 982>>, <<1920, 1080>>}

\* os_fails: the pyautogui input call raises; save_fails: writing the
\* screenshot file raises; tie: the outcome of a rounding tie
Envs == [os_fails : BOOLEAN, save_fails : BOOLEAN, tie : BOOLEAN]

(***************************************************************************)
(* What a request handler gives its caller.                                *)
(***************************************************************************)
NoOutcome == [kind |-> "none", status |-> 0, detail |-> "", result |-> NoResult,
              success |-> FALSE, iterations |-> 0, execution_log |-> <<>>]
\* raise HTTPException(status_code=code, detail=detail)
HttpError(code, detail) ==
    [NoOutcome EXCEPT !.kind = "error", !.status = code, !.detail = detail]
ActionReply(r) == [NoOutcome EXCEPT !.kind = "action_result", !.status = 200, !.result = r]
TaskReply(s, n, log) ==
    [NoOutcome EXCEPT !.kind = "task_result", !.status = 200, !.success = s,
                      !.iterations = n, !.execution_log = log]

NoProbe == [requests |-> 0, screen_changes |-> 0, count_before |-> 0, remote_calls |-> 0,
            remote_failed |-> FALSE, calls_at_failure |-> 0, os_at_failure |-> 0,
            recovered |-> FALSE, last_action |-> "", os_raised |-> FALSE]

LogEvent(t) == [type |-> t, success |-> FALSE]
LogTaskComplete(s) == [type |-> "task_complete", success |-> s]

taskVars == <<messages, max_iterations, iterations, task_complete, idx,
              tool_results, execution_log, last_shot>>
mapVars == <<map_in, map_out>>
scaleVars == <<scale_in, scale_out>>
\* the variables of the other specifications
keyVars == <<key_in, key_events, key_out>>
asyncVars == <<active_connections, ws, frames, running, owners, last_request>>
logVars == <<log_in, actions, action_log>>
runVars == <<run_pc, iteration, run_messages, run_events>>
unitVars == <<logVars, runVars>>
otherVars == <<mapVars, scaleVars, keyVars, asyncVars, unitVars>>

NoMapIn == [x |-> 0, y |-> 0, vw |-> 1, vh |-> 1, lw |-> 1, lh |-> 1,
            tx |-> FALSE, ty |-> FALSE]

TaskIds == {1, 2}   \* the /task invocations in flight
ConnIds == {1, 2}   \* the websockets that connect to /ws

\* the locals of an execute_task handler that has not been called: pc is its
\* position ("new", "loop", "exec", "bcast", "send", "except", "done");
\* bc_index, disconnected and sending are the list iterator, the local
\* disconnected and the local connection of the broadcast_message it awaits;
\* pending is the tool result to append once broadcast_message has returned;
\* call_raised, broadcast_raised: a remote or agent call, broadcast_message,
\* raised in this handler
NoFrame ==
    [pc |-> "new", max_iterations |-> 0, iterations |-> 0, task_complete |-> FALSE,
     response |-> [role |-> "assistant", kind |-> "response", shot |-> <<0, 0>>,
                   results |-> <<>>, stop_reason |-> "", text_responses |-> <<>>,
                   tool_uses |-> <<>>],
     idx |-> 0, tool_results |-> <<>>, execution_log |-> <<>>, outcome |-> NoOutcome,
     bc_index |-> 0, disconnected |-> <<>>, sending |-> 0,
     pending |-> [tool_use_id |-> <<0, 0>>, content |-> "", has_success |-> FALSE,
                  success |-> FALSE, error |-> FALSE, shot |-> <<0, 0>>],
     call_raised |-> FALSE, broadcast_raised |-> FALSE]

NoRequest == [task |-> 0, owners |-> <<>>]

\* the variables of SpecAsync with no observer connected and no task called
AsyncIdle ==
    /\ active_connections = <<>>
    /\ ws = [w \in ConnIds |-> "new"]
    /\ frames = [t \in TaskIds |-> NoFrame]
    /\ running = 0
    /\ owners = <<>>
    /\ last_request = NoRequest

NoKeyOut == [done |-> FALSE, raised |-> FALSE]

\* the variables of SpecKeys before press_key is called with no key sequence
KeysIdle == key_in = <<>> /\ key_events = <<>> /\ key_out = NoKeyOut

NoScaleIn == [logical |-> <<1, 1>>, physical |-> <<1, 1>>, tie |-> FALSE]
\* done: screenshot() was called; raised: it raised; size: the width and height
\* of the dict it returned; frame: the size it resized the frame to
NoScaleOut == [done |-> FALSE, raised |-> FALSE, size |-> <<0, 0>>, frame |-> <<0, 0>>,
               root_raised |-> FALSE, root_size |-> <<0, 0>>]

\* a result dict of DesktopAgent: data holds the string of a screenshot
\* result, character by character, has_data tells whether the dict has the key "data"
\* has_success whether it has the key "success"
Result(type, has_success, success, has_data, data) ==
    [type |-> type, has_success |-> has_success, success |-> success,
     has_data |-> has_data, data |-> data]
NoLogIn == [called |-> FALSE, before |-> Result("none", FALSE, FALSE, FALSE, <<>>),
            after |-> Result("none", FALSE, FALSE, FALSE, <<>>), sent |-> <<>>,
            count_before |-> 0]
\* a new ActionLogger before log_action is called
LogIdle == log_in = NoLogIn /\ actions = <<>> /\ action_log = <<>>

\* ComputerUseAgent before run is called; SessionLogger.__init__ has logged
\* session_start
RunIdle ==
    /\ run_pc = "idle"
    /\ iteration = 0
    /\ run_messages = <<>>
    /\ run_events = <<"session_start">>

UnitsIdle == LogIdle /\ RunIdle

\* the module globals of orchestrator.py before startup_event has run
ServerInit ==
    /\ pc = "boot"
    /\ screen \in ScreenSizes
    /\ claude_screen = <<DEFAULT_CLAUDE_WIDTH, DEFAULT_CLAUDE_HEIGHT>>
    /\ tools_display = <<0, 0>>
    /\ client_ready = FALSE
    /\ action_count = 0
    /\ os_calls = <<>>
    /\ messages = <<>>
    /\ max_iterations = 0
    /\ iterations = 0
    /\ task_complete = FALSE
    /\ idx = 0
    /\ tool_results = <<>>
    /\ execution_log = <<>>
    /\ session_log = <<LogEvent("session_start")>>
    /\ outcome = NoOutcome
    /\ last_shot = <<0, 0>>
    /\ probe = NoProbe

Init ==
    /\ ServerInit
    /\ map_in = NoMapIn
    /\ map_out = <<>>
    /\ scale_in = NoScaleIn
    /\ scale_out = NoScaleOut
    /\ KeysIdle
    /\ AsyncIdle
    /\ UnitsIdle

(***************************************************************************)
(* orchestrator.py: startup_event.  api_key: ANTHROPIC_API_KEY is set.     *)
(***************************************************************************)
Startup(api_key, env) ==
    LET test_screenshot == screenshot(screen, env.save_fails, env.tie)
    IN  /\ pc = "boot"
        /\ pc' = "idle"
        /\ IF ~api_key
           THEN /\ session_log' = Append(session_log, LogEvent("message"))
                /\ UNCHANGED <<claude_screen, tools_display, client_ready, action_count>>
           ELSE IF test_screenshot.raised
           THEN /\ session_log' = Append(session_log, LogEvent("error"))
                /\ UNCHANGED <<claude_screen, tools_display, client_ready, action_count>>
           ELSE /\ claude_screen' = <<test_screenshot.result.w, test_screenshot.result.h>>
                /\ tools_display' = <<test_screenshot.result.w, test_screenshot.result.h>>
                /\ client_ready' = TRUE
                /\ action_count' = action_count + test_screenshot.inc
                /\ session_log' = Append(session_log, LogEvent("message"))
        /\ UNCHANGED <<screen, os_calls, outcome, probe>>
        /\ UNCHANGED taskVars
        /\ UNCHANGED otherVars

\* the display configuration changes (a monitor is attached or detached)
ScreenChange(s) ==
    /\ pc \in {"idle", "loop", "exec"}
    /\ probe.screen_changes < MaxScreenChanges
    /\ s # screen
    /\ screen' = s
    /\ probe' = [probe EXCEPT !.screen_changes = @ + 1]
    /\ UNCHANGED <<pc, claude_screen, tools_display, client_ready, action_count,
                   os_calls, session_log, outcome>>
    /\ UNCHANGED taskVars
    /\ UNCHANGED otherVars

(***************************************************************************)
(* orchestrator.py: POST /action (execute_action).  The request is an      *)
(* ActionRequest: action_request.dict() always has the three keys, None    *)
(* where the field was not given.                                          *)
(***************************************************************************)
ActionNames == {"screenshot", "mouse_move", "left_click", "right_click",
                "double_click", "type", "key", "wait"}

RequestCoordinates ==
    {<<>>, <<-1, 5>>, <<7, -1>>} \cup
    UNION {{<<s[1] - 1, s[2] - 1>>, <<s[1], 5>>, <<7, s[2]>>, <<s[1] + 1, 5>>} :
           s \in ScreenSizes}
RequestTexts == {<<>>, <<"hello">>, <<"cmd", "space">>}

ActionRequests ==
    [action : ActionNames, coordinate : RequestCoordinates, text : RequestTexts]

ActionEndpoint(action, env) ==
    LET got == execute_action(action, screen, env.os_fails, env.save_fails, env.tie)
    IN  /\ pc = "idle"
        /\ probe.requests < MaxActions
        /\ probe' = [probe EXCEPT !.requests = @ + 1, !.count_before = action_count]
        /\ action_count' = action_count + got.inc
        /\ os_calls' = got.os
        /\ IF got.raised
           THEN \* the exception leaves the handler: the framework answers 500
                /\ outcome' = HttpError(500, "Internal Server Error")
                /\ UNCHANGED session_log
           ELSE /\ outcome' = ActionReply(got.result)
                /\ session_log' = Append(session_log, LogEvent("action"))
        /\ UNCHANGED <<pc, screen, claude_screen, tools_display, client_ready>>
        /\ UNCHANGED taskVars
        /\ UNCHANGED otherVars

NextAgent ==
    \/ \E k \in BOOLEAN, env \in Envs : Startup(k, env)
    \/ \E s \in ScreenSizes : ScreenChange(s)
    \/ \E a \in ActionRequests, env \in Envs : ActionEndpoint(a, env)

SpecAgent == Init /\ [][NextAgent]_vars

(***************************************************************************)
(* claude_client.py: the conversation history.  A message is a record with *)
(* the same fields whatever its role: a user message carries the task and  *)
(* the size of its screenshot, or tool results; an assistant message       *)
(* carries what _parse_response reads from it.  The dict tool_use["input"] *)
(* of the parsed response is the object block.input kept in the history:   *)
(* there is one copy of it, here.                                          *)
(***************************************************************************)
UserTask(shot) ==
    [role |-> "user", kind |-> "task", shot |-> shot, results |-> <<>>,
     stop_reason |-> "", text_responses |-> <<>>, tool_uses |-> <<>>]
UserToolResults(results) ==
    [role |-> "user", kind |-> "tool_result", shot |-> <<0, 0>>, results |-> results,
     stop_reason |-> "", text_responses |-> <<>>, tool_uses |-> <<>>]
Assistant(stop_reason, text_responses, tool_uses) ==
    [role |-> "assistant", kind |-> "response", shot |-> <<0, 0>>, results |-> <<>>,
     stop_reason |-> stop_reason, text_responses |-> text_responses,
     tool_uses |-> tool_uses]

ToolUse(name, input) == [id |-> <<0, 0>>, name |-> name, input |-> input]

\* the remote service numbers the tool_use blocks of its k-th response
WithIds(r, k) ==
    [r EXCEPT !.tool_uses = [i \in DOMAIN r.tool_uses |->
                                [r.tool_uses[i] EXCEPT !.id = <<k, i>>]]]

\* an entry of tool_results: the tool_use_id, and the content: an image of
\* size shot, the json of a result (its success and error keys), or the text
\* "Tool ... not implemented in agent"
ToolResult(id, content, has_success, success, error, shot) ==
    [tool_use_id |-> id, content |-> content, has_success |-> has_success,
     success |-> success, error |-> error, shot |-> shot]

\* an entry of execution_log; ref: where in messages the "input" dict lives
ClaudeMessage(text) ==
    [type |-> "claude_message", tool |-> "", text |-> text, ref |-> <<0, 0>>]
ToolUseEntry(tool, ref) ==
    [type |-> "tool_use", tool |-> tool, text |-> "", ref |-> ref]

(***************************************************************************)
(* The remote service: what one call of client.beta.messages.create gives. *)
(***************************************************************************)
MistakeText == "That opened the wrong menu instead"

\* any(keyword in text_response for keyword in menu_mistake_keywords)
MenuMistake(text_responses) ==
    \E i \in DOMAIN text_responses : text_responses[i] = MistakeText

Responses ==
    { Assistant("end_turn", <<"Task is done">>, <<>>),
      Assistant("max_tokens", <<>>, <<>>),
      Assistant("tool_use", <<>>, <<ToolUse("computer", [action |-> "screenshot"])>>),
      Assistant("tool_use", <<MistakeText>>,
                <<ToolUse("computer", [action |-> "left_click", coordinate |-> <<600, 400>>])>>),
      Assistant("tool_use", <<"Clicking the icon">>,
                <<ToolUse("computer", [action |-> "wait", duration |-> 2]),
                  ToolUse("computer", [action |-> "left_click", coordinate |-> <<2000, 900>>])>>),
      Assistant("tool_use", <<>>,
                <<ToolUse("computer", [action |-> "key", text |-> <<"cmd", "space">>]),
                  ToolUse("bash", [command |-> "ls"])>>),
      Assistant("tool_use", <<MistakeText>>,
                <<ToolUse("computer", [action |-> "right_click", coordinate |-> <<600, 400>>]),
                  ToolUse("computer", [action |-> "left_click"])>>) }

RemoteFailure == [ok |-> FALSE, response |-> Assistant("", <<>>, <<>>)]
Remotes == {RemoteFailure} \cup {[ok |-> TRUE, response |-> r] : r \in Responses}

(***************************************************************************)
(* orchestrator.py: POST /task (execute_task).                             *)
(***************************************************************************)
\* the local variable response: the parsed last assistant message
response == messages[Len(messages)]

\* an exception reaches "except Exception as e" of execute_task
Except == pc' = "except"

\* lines 196-271: the checks, reset_conversation, the initial screenshot and
\* send_message
StartTask(n, env, remote) ==
    LET screenshot_result == screenshot(screen, env.save_fails, env.tie)
        shot == <<screenshot_result.result.w, screenshot_result.result.h>>
    IN  /\ pc = "idle"
        /\ max_iterations' = n
        /\ os_calls' = <<>>
        /\ UNCHANGED <<screen, claude_screen, tools_display, client_ready>>
        /\ UNCHANGED otherVars
        /\ IF ~client_ready
           THEN /\ pc' = "done"
                /\ outcome' = HttpError(503, "Claude client not available")
                /\ UNCHANGED <<action_count, messages, iterations, task_complete, idx,
                               tool_results, execution_log, session_log, last_shot, probe>>
           ELSE /\ session_log' = Append(session_log, LogEvent("task_start"))
                /\ iterations' = 0
                /\ task_complete' = FALSE
                /\ execution_log' = <<>>
                /\ UNCHANGED <<idx, tool_results, outcome>>
                /\ IF screenshot_result.raised
                   THEN /\ Except
                        /\ messages' = <<>>
                        /\ UNCHANGED <<action_count, last_shot, probe>>
                   ELSE /\ action_count' = action_count + screenshot_result.inc
                        /\ last_shot' = shot
                        /\ IF remote.ok
                           THEN /\ pc' = "loop"
                                /\ messages' = <<UserTask(shot), WithIds(remote.response, 1)>>
                                /\ probe' = [probe EXCEPT !.remote_calls = 1]
                           ELSE /\ Except
                                /\ messages' = <<UserTask(shot)>>
                                /\ probe' = [probe EXCEPT !.remote_calls = 1,
                                                          !.remote_failed = TRUE,
                                                          !.calls_at_failure = 1,
                                                          !.os_at_failure = 0]

\* the entries the loop logs for the texts of the response (lines 277-280)
RECURSIVE ClaudeMessages(_)
ClaudeMessages(texts) ==
    IF texts = <<>> THEN <<>>
    ELSE <<ClaudeMessage(Head(texts))>> \o ClaudeMessages(Tail(texts))

RECURSIVE LogEvents(_, _)
LogEvents(t, n) == IF n = 0 THEN <<>> ELSE <<LogEvent(t)>> \o LogEvents(t, n - 1)

\* lines 410-417: log_task_complete and the return
Return(complete, n, log, slog) ==
    /\ pc' = "done"
    /\ session_log' = Append(slog, LogTaskComplete(complete))
    /\ outcome' = TaskReply(complete, n, log)

\* the while test off by one
WhileTest_inclusive(n, cap, complete) == n <= cap /\ ~complete

\* line 273: the test of the while loop
WhileTest(n, cap, complete) == n < cap /\ ~complete

\* lines 273-288 and 406-408: the while test and the head of one iteration
LoopHead ==
    LET texts == response.text_responses
        log == execution_log \o ClaudeMessages(texts)
        slog == session_log \o LogEvents("message", Len(texts))
    IN  /\ pc = "loop"
        /\ UNCHANGED <<screen, claude_screen, tools_display, client_ready, action_count,
                       os_calls, messages, max_iterations, last_shot, probe>>
        /\ UNCHANGED otherVars
        /\ IF WhileTest(iterations, max_iterations, task_complete)
           THEN /\ iterations' = iterations + 1
                /\ execution_log' = log
                /\ IF response.stop_reason = "end_turn"
                   THEN /\ task_complete' = TRUE
                        /\ Return(TRUE, iterations + 1, log, slog)
                        /\ UNCHANGED <<idx, tool_results>>
                   ELSE IF response.tool_uses # <<>>
                   THEN /\ pc' = "exec"
                        /\ idx' = 1
                        /\ tool_results' = <<>>
                        /\ session_log' = slog
                        /\ UNCHANGED <<task_complete, outcome>>
                   ELSE /\ task_complete' = TRUE
                        /\ Return(TRUE, iterations + 1, log, slog)
                        /\ UNCHANGED <<idx, tool_results>>
           ELSE /\ Return(task_complete, iterations, execution_log, session_log)
                /\ UNCHANGED <<iterations, task_complete, idx, tool_results, execution_log>>

\* the for loop left after its first pass
ForLoopDone_early(i, tool_uses) == i > 1

\* line 291: the for loop over response["tool_uses"] has no element left
ForLoopDone(i, tool_uses) == i > Len(tool_uses)

\* lines 291-402: one pass of the for loop over response["tool_uses"].
\* esc_fails: the pyautogui call of the recovery Escape raises.
\* what the Escape result adds to tool_results although no tool use asked for it
RecoveryResults_kept(recover, escape_result, id) ==
    IF recover
    THEN <<ToolResult(id, "json", escape_result.has_success, escape_result.success,
                      escape_result.error, <<0, 0>>)>>
    ELSE <<>>

\* line 361: agent.key_press("escape") is called for its effect, what it
\* returns is dropped
RecoveryResults(recover, escape_result, id) == <<>>

ExecTool(env, esc_fails) ==
    LET at == Len(messages)
        tool_use == response.tool_uses[idx]
        tool_name == tool_use.name
        tool_input == tool_use.input
        mapped == IF tool_name = "computer" /\ HasKey(tool_input, "coordinate")
                  THEN [tool_input EXCEPT !.coordinate =
                            map_coords_from_claude(@[1], @[2], claude_screen[1],
                                                   claude_screen[2], screen[1], screen[2],
                                                   env.tie, env.tie)]
                  ELSE tool_input
        action_type == IF HasKey(tool_input, "action") THEN tool_input.action ELSE "None"
        recover == /\ action_type \in {"left_click", "screenshot"}
                   /\ response.text_responses # <<>>
                   /\ MenuMistake(response.text_responses)
        escape == IF recover THEN key_press(<<"escape">>, screen, esc_fails)
                  ELSE Returned(NoResult, <<>>, 0)
        got == execute_action([mapped EXCEPT !.action = action_type], screen,
                              env.os_fails, env.save_fails, env.tie)
        result == got.result
        entry == IF result.type = "screenshot"
                 THEN ToolResult(tool_use.id, "image", FALSE, FALSE, FALSE,
                                 <<result.w, result.h>>)
                 ELSE ToolResult(tool_use.id, "json", result.has_success,
                                 result.success, result.error, <<0, 0>>)
    IN  /\ pc = "exec"
        /\ ~ForLoopDone(idx, response.tool_uses)
        /\ execution_log' = Append(execution_log, ToolUseEntry(tool_name, <<at, idx>>))
        /\ UNCHANGED <<screen, claude_screen, tools_display, client_ready,
                       max_iterations, iterations, task_complete, outcome, last_shot>>
        /\ UNCHANGED otherVars
        /\ IF tool_name = "computer"
           THEN /\ messages' = [messages EXCEPT ![at].tool_uses[idx].input = mapped]
                /\ os_calls' = os_calls \o escape.os \o got.os
                /\ action_count' = action_count + escape.inc + got.inc
                /\ probe' = [probe EXCEPT !.recovered = recover,
                                          !.last_action = action_type,
                                          !.os_raised = env.os_fails /\ got.os # <<>>]
                /\ IF got.raised
                   THEN /\ Except
                        /\ session_log' = Append(session_log, LogEvent("message"))
                        /\ UNCHANGED <<idx, tool_results>>
                   ELSE /\ pc' = "exec"
                        /\ session_log' = session_log \o
                               <<LogEvent("message"), LogEvent("action")>>
                        /\ tool_results' =
                               Append(tool_results
                                          \o RecoveryResults(recover, escape.result, tool_use.id),
                                      entry)
                        /\ idx' = idx + 1
           ELSE /\ pc' = "exec"
                /\ session_log' = Append(session_log, LogEvent("message"))
                /\ tool_results' = Append(tool_results,
                       ToolResult(tool_use.id, "not implemented", FALSE, FALSE, FALSE, <<0, 0>>))
                /\ idx' = idx + 1
                /\ probe' = [probe EXCEPT !.recovered = FALSE, !.last_action = "",
                                          !.os_raised = FALSE]
                /\ UNCHANGED <<messages, os_calls, action_count>>

\* the size of the last screenshot among tool results, or shot when none
RECURSIVE LastShot(_, _)
LastShot(results, shot) ==
    IF results = <<>> THEN shot
    ELSE LastShot(Tail(results),
                  IF Head(results).content = "image" THEN Head(results).shot ELSE shot)

\* lines 404-405 and claude_client.py continue_conversation
ContinueConversation(remote) ==
    LET sent == Append(messages, UserToolResults(tool_results))
        k == probe.remote_calls + 1
    IN  /\ pc = "exec"
        /\ ForLoopDone(idx, response.tool_uses)
        /\ last_shot' = LastShot(tool_results, last_shot)
        /\ UNCHANGED <<screen, claude_screen, tools_display, client_ready, action_count,
                       os_calls, max_iterations, iterations, task_complete, idx,
                       tool_results, execution_log, session_log, outcome>>
        /\ UNCHANGED otherVars
        /\ IF remote.ok
           THEN /\ pc' = "loop"
                /\ messages' = Append(sent, WithIds(remote.response, k))
                /\ probe' = [probe EXCEPT !.remote_calls = k, !.last_action = "",
                                          !.os_raised = FALSE]
           ELSE /\ Except
                /\ messages' = sent
                /\ probe' = [probe EXCEPT !.remote_calls = k, !.remote_failed = TRUE,
                                          !.calls_at_failure = k,
                                          !.os_at_failure = Len(os_calls),
                                          !.last_action = "", !.os_raised = FALSE]

\* an except clause that answers with the partial result and does not log
ExceptHandler_swallow ==
    /\ pc = "except"
    /\ pc' = "done"
    /\ outcome' = TaskReply(FALSE, iterations, execution_log)
    /\ UNCHANGED <<screen, claude_screen, tools_display, client_ready, action_count,
                   os_calls, probe, session_log>>
    /\ UNCHANGED taskVars
    /\ UNCHANGED otherVars

\* lines 419-429: the except clause of execute_task
ExceptHandler ==
    /\ pc = "except"
    /\ pc' = "done"
    /\ session_log' = Append(session_log, LogEvent("error"))
    /\ outcome' = HttpError(500, "str(e)")
    /\ UNCHANGED <<screen, claude_screen, tools_display, client_ready, action_count,
                   os_calls, probe>>
    /\ UNCHANGED taskVars
    /\ UNCHANGED otherVars

Next ==
    \/ \E k \in BOOLEAN, env \in Envs : Startup(k, env)
    \/ \E s \in ScreenSizes : ScreenChange(s)
    \/ \E n \in 0 .. MaxIterations, env \in Envs, remote \in Remotes : StartTask(n, env, remote)
    \/ LoopHead
    \/ \E env \in Envs, esc_fails \in BOOLEAN : ExecTool(env, esc_fails)
    \/ \E remote \in Remotes : ContinueConversation(remote)
    \/ ExceptHandler

Spec == Init /\ [][Next]_vars

\* the handler of a request, once called, runs until it returns or raises
SpecLive == Spec /\ WF_vars(Next)

(***************************************************************************)
(* The server under asyncio: websocket_endpoint handlers and overlapping   *)
(* execute_task handlers on one event loop.  A handler runs alone from one *)
(* await that suspends to the next; running names the handler that holds   *)
(* the event loop.  The only await of execute_task is the one of           *)
(* broadcast_message, which suspends in connection.send_json.  The greeting*)
(* and the pong of websocket_endpoint touch no shared state and are not    *)
(* modelled; the handler is "open" from its append to active_connections   *)
(* until receive_text raises.                                              *)
(***************************************************************************)
asyncFixed == <<pc, screen, claude_screen, tools_display, client_ready, max_iterations,
                iterations, task_complete, idx, tool_results, execution_log, outcome,
                last_shot, mapVars, scaleVars, keyVars, unitVars>>

AsyncResponses ==
    { Assistant("end_turn", <<"Task is done">>, <<>>),
      Assistant("tool_use", <<>>, <<ToolUse("computer", [action |-> "screenshot"])>>),
      Assistant("tool_use", <<"Clicking the icon">>,
                <<ToolUse("bash", [command |-> "ls"]),
                  ToolUse("computer", [action |-> "left_click", coordinate |-> <<600, 400>>])>>) }

AsyncRemotes == {RemoteFailure} \cup {[ok |-> TRUE, response |-> r] : r \in AsyncResponses}
AsyncEnvs == [os_fails : {FALSE}, save_fails : {FALSE}, tie : {FALSE}]

InList(list, c) == \E i \in DOMAIN list : list[i] = c

\* list.remove(c) for c in list: the first occurrence goes
Remove(list, c) ==
    LET k == CHOOSE i \in DOMAIN list : list[i] = c /\ \A j \in 1 .. i - 1 : list[j] # c
    IN  SubSeq(list, 1, k - 1) \o SubSeq(list, k + 1, Len(list))

\* lines 441-445: accept and append
WsConnect(w) ==
    /\ pc = "idle"
    /\ running = 0
    /\ ws[w] = "new"
    /\ ws' = [ws EXCEPT ![w] = "open"]
    /\ active_connections' = Append(active_connections, w)
    /\ UNCHANGED <<frames, running, owners, last_request>>
    /\ UNCHANGED <<messages, action_count, os_calls, session_log, probe>>
    /\ UNCHANGED asyncFixed

\* lines 467-468: receive_text raises WebSocketDisconnect; remove raises
\* ValueError out of the handler when the connection is not in the list
WsDisconnect(w) ==
    /\ running = 0
    /\ ws[w] = "open"
    /\ IF InList(active_connections, w)
       THEN /\ active_connections' = Remove(active_connections, w)
            /\ ws' = [ws EXCEPT ![w] = "closed"]
       ELSE /\ UNCHANGED active_connections
            /\ ws' = [ws EXCEPT ![w] = "raised"]
    /\ UNCHANGED <<frames, running, owners, last_request>>
    /\ UNCHANGED <<messages, action_count, os_calls, session_log, probe>>
    /\ UNCHANGED asyncFixed

\* lines 469-472: any other exception (json.loads of a bad message)
WsError(w) ==
    /\ running = 0
    /\ ws[w] = "open"
    /\ active_connections' = IF InList(active_connections, w)
                             THEN Remove(active_connections, w)
                             ELSE active_connections
    /\ ws' = [ws EXCEPT ![w] = "errored"]
    /\ UNCHANGED <<frames, running, owners, last_request>>
    /\ UNCHANGED <<messages, action_count, os_calls, session_log, probe>>
    /\ UNCHANGED asyncFixed

\* lines 196-271 in handler t: the checks, reset_conversation, the initial
\* screenshot and send_message; none of them awaits
TaskStart(t, n, env, remote) ==
    LET screenshot_result == screenshot(screen, env.save_fails, env.tie)
        shot == <<screenshot_result.result.w, screenshot_result.result.h>>
        k == probe.remote_calls + 1
        f == [NoFrame EXCEPT !.max_iterations = n]
    IN  /\ pc = "idle"
        /\ running = 0
        /\ frames[t].pc = "new"
        /\ UNCHANGED <<active_connections, ws, os_calls>>
        /\ UNCHANGED asyncFixed
        /\ IF ~client_ready
           THEN /\ frames' = [frames EXCEPT ![t] =
                       [f EXCEPT !.pc = "done",
                                 !.outcome = HttpError(503, "Claude client not available")]]
                /\ UNCHANGED <<running, owners, last_request, messages, action_count,
                               session_log, probe>>
           ELSE /\ session_log' = Append(session_log, LogEvent("task_start"))
                /\ running' = t
                /\ IF screenshot_result.raised
                   THEN /\ frames' = [frames EXCEPT ![t] =
                               [f EXCEPT !.pc = "except", !.call_raised = TRUE]]
                        /\ messages' = <<>>
                        /\ owners' = <<>>
                        /\ UNCHANGED <<last_request, action_count, probe>>
                   ELSE /\ action_count' = action_count + screenshot_result.inc
                        /\ last_request' = [task |-> t, owners |-> <<t>>]
                        /\ probe' = [probe EXCEPT !.remote_calls = k]
                        /\ IF remote.ok
                           THEN /\ messages' = <<UserTask(shot), WithIds(remote.response, k)>>
                                /\ owners' = <<t, t>>
                                /\ frames' = [frames EXCEPT ![t] =
                                       [f EXCEPT !.pc = "loop",
                                                 !.response = WithIds(remote.response, k)]]
                           ELSE /\ messages' = <<UserTask(shot)>>
                                /\ owners' = <<t>>
                                /\ frames' = [frames EXCEPT ![t] =
                                       [f EXCEPT !.pc = "except", !.call_raised = TRUE]]

\* lines 273-288 and 406-417 in handler t
TaskLoopHead(t) ==
    LET f == frames[t]
        texts == f.response.text_responses
        log == f.execution_log \o ClaudeMessages(texts)
        slog == session_log \o LogEvents("message", Len(texts))
        finish(complete, n, l) ==
            [f EXCEPT !.pc = "done", !.iterations = n, !.task_complete = complete,
                      !.execution_log = l, !.outcome = TaskReply(complete, n, l)]
    IN  /\ running = t
        /\ f.pc = "loop"
        /\ UNCHANGED <<active_connections, ws, owners, last_request>>
        /\ UNCHANGED <<messages, action_count, os_calls, probe>>
        /\ UNCHANGED asyncFixed
        /\ IF WhileTest(f.iterations, f.max_iterations, f.task_complete)
           THEN IF f.response.stop_reason = "end_turn" \/ f.response.tool_uses = <<>>
                THEN /\ frames' = [frames EXCEPT ![t] = finish(TRUE, f.iterations + 1, log)]
                     /\ session_log' = Append(slog, LogTaskComplete(TRUE))
                     /\ running' = 0
                ELSE /\ frames' = [frames EXCEPT ![t] =
                            [f EXCEPT !.pc = "exec", !.iterations = @ + 1,
                                      !.execution_log = log, !.idx = 1,
                                      !.tool_results = <<>>]]
                     /\ session_log' = slog
                     /\ UNCHANGED running
           ELSE /\ frames' = [frames EXCEPT ![t] =
                       finish(f.task_complete, f.iterations, f.execution_log)]
                /\ session_log' = Append(session_log, LogTaskComplete(f.task_complete))
                /\ running' = 0

\* tool_input["coordinate"] = ...: the dict is the one object the history and
\* the local response both hold, wherever in the history it is
MutateInput(msgs, id, input) ==
    [j \in DOMAIN msgs |->
        [msgs[j] EXCEPT !.tool_uses =
            [i \in DOMAIN msgs[j].tool_uses |->
                IF msgs[j].tool_uses[i].id = id
                THEN [msgs[j].tool_uses[i] EXCEPT !.input = input]
                ELSE msgs[j].tool_uses[i]]]]

\* lines 291-368 and 391-402 in handler t: one pass of the for loop up to the
\* call of broadcast_message (lines 476-477), or the whole pass for a tool
\* that is not the computer tool
TaskExecTool(t, env, esc_fails) ==
    LET f == frames[t]
        tool_use == f.response.tool_uses[f.idx]
        tool_name == tool_use.name
        tool_input == tool_use.input
        mapped == IF tool_name = "computer" /\ HasKey(tool_input, "coordinate")
                  THEN [tool_input EXCEPT !.coordinate =
                            map_coords_from_claude(@[1], @[2], claude_screen[1],
                                                   claude_screen[2], screen[1], screen[2],
                                                   env.tie, env.tie)]
                  ELSE tool_input
        action_type == IF HasKey(tool_input, "action") THEN tool_input.action ELSE "None"
        recover == /\ action_type \in {"left_click", "screenshot"}
                   /\ f.response.text_responses # <<>>
                   /\ MenuMistake(f.response.text_responses)
        escape == IF recover THEN key_press(<<"escape">>, screen, esc_fails)
                  ELSE Returned(NoResult, <<>>, 0)
        got == execute_action([mapped EXCEPT !.action = action_type], screen,
                              env.os_fails, env.save_fails, env.tie)
        result == got.result
        entry == IF result.type = "screenshot"
                 THEN ToolResult(tool_use.id, "image", FALSE, FALSE, FALSE,
                                 <<result.w, result.h>>)
                 ELSE ToolResult(tool_use.id, "json", result.has_success,
                                 result.success, result.error, <<0, 0>>)
        log == Append(f.execution_log, ToolUseEntry(tool_name, tool_use.id))
    IN  /\ running = t
        /\ f.pc = "exec"
        /\ ~ForLoopDone(f.idx, f.response.tool_uses)
        /\ UNCHANGED <<active_connections, ws, running, owners, last_request, probe>>
        /\ UNCHANGED asyncFixed
        /\ IF tool_name = "computer"
           THEN /\ messages' = MutateInput(messages, tool_use.id, mapped)
                /\ os_calls' = os_calls \o escape.os \o got.os
                /\ action_count' = action_count + escape.inc + got.inc
                /\ IF got.raised
                   THEN /\ session_log' = Append(session_log, LogEvent("message"))
                        /\ frames' = [frames EXCEPT ![t] =
                               [f EXCEPT !.pc = "except", !.call_raised = TRUE,
                                         !.execution_log = log,
                                         !.response.tool_uses[f.idx].input = mapped]]
                   ELSE /\ session_log' = session_log \o
                               <<LogEvent("message"), LogEvent("action")>>
                        /\ frames' = [frames EXCEPT ![t] =
                               [f EXCEPT !.pc = "bcast", !.execution_log = log,
                                         !.response.tool_uses[f.idx].input = mapped,
                                         !.bc_index = 0, !.disconnected = <<>>,
                                         !.sending = 0, !.pending = entry]]
           ELSE /\ session_log' = Append(session_log, LogEvent("message"))
                /\ frames' = [frames EXCEPT ![t] =
                       [f EXCEPT !.execution_log = log, !.idx = @ + 1,
                                 !.tool_results = Append(@,
                                     ToolResult(tool_use.id, "not implemented", FALSE,
                                                FALSE, FALSE, <<0, 0>>))]]
                /\ UNCHANGED <<messages, os_calls, action_count>>

\* lines 486-487: for connection in disconnected: remove; remove raises
\* ValueError at the first connection that is no longer in the list
RECURSIVE RemoveDisconnected(_, _)
RemoveDisconnected(list, disconnected) ==
    IF disconnected = <<>> THEN [raised |-> FALSE, list |-> list]
    ELSE IF ~InList(list, Head(disconnected)) THEN [raised |-> TRUE, list |-> list]
    ELSE RemoveDisconnected(Remove(list, Head(disconnected)), Tail(disconnected))

\* lines 479-487 and 375-390 in handler t: the list iterator of "for
\* connection in active_connections" takes the next element of the list as it
\* is now and the handler suspends in send_json; or the list is exhausted, the
\* disconnected are removed, and the pass of the for loop of execute_task ends
TaskBroadcastNext(t) ==
    LET f == frames[t]
        removed == RemoveDisconnected(active_connections, f.disconnected)
    IN  /\ running = t
        /\ f.pc = "bcast"
        /\ UNCHANGED <<ws, owners, last_request>>
        /\ UNCHANGED <<messages, action_count, os_calls, session_log, probe>>
        /\ UNCHANGED asyncFixed
        /\ IF f.bc_index < Len(active_connections)
           THEN /\ frames' = [frames EXCEPT ![t] =
                       [f EXCEPT !.pc = "send", !.bc_index = @ + 1,
                                 !.sending = active_connections[f.bc_index + 1]]]
                /\ running' = 0
                /\ UNCHANGED active_connections
           ELSE /\ active_connections' = removed.list
                /\ UNCHANGED running
                /\ IF removed.raised
                   THEN frames' = [frames EXCEPT ![t] =
                            [f EXCEPT !.pc = "except", !.broadcast_raised = TRUE]]
                   ELSE frames' = [frames EXCEPT ![t] =
                            [f EXCEPT !.pc = "exec", !.idx = @ + 1,
                                      !.tool_results = Append(@, f.pending)]]

\* lines 480-484 in handler t: send_json returns or raises and the handler
\* has the event loop again; a send on a connection whose handler has ended
\* raises
TaskSendDone(t, fails) ==
    LET f == frames[t]
    IN  /\ running = 0
        /\ f.pc = "send"
        /\ ws[f.sending] # "open" => fails
        /\ running' = t
        /\ frames' = [frames EXCEPT ![t] =
               [f EXCEPT !.pc = "bcast",
                         !.disconnected = IF fails THEN Append(@, f.sending) ELSE @]]
        /\ UNCHANGED <<active_connections, ws, owners, last_request>>
        /\ UNCHANGED <<messages, action_count, os_calls, session_log, probe>>
        /\ UNCHANGED asyncFixed

\* lines 404-405 in handler t and claude_client.py continue_conversation, on
\* the history as it is now
TaskContinue(t, remote) ==
    LET f == frames[t]
        sent == Append(messages, UserToolResults(f.tool_results))
        sent_owners == Append(owners, t)
        k == probe.remote_calls + 1
    IN  /\ running = t
        /\ f.pc = "exec"
        /\ ForLoopDone(f.idx, f.response.tool_uses)
        /\ last_request' = [task |-> t, owners |-> sent_owners]
        /\ probe' = [probe EXCEPT !.remote_calls = k]
        /\ UNCHANGED <<active_connections, ws, running>>
        /\ UNCHANGED <<action_count, os_calls, session_log>>
        /\ UNCHANGED asyncFixed
        /\ IF remote.ok
           THEN /\ messages' = Append(sent, WithIds(remote.response, k))
                /\ owners' = Append(sent_owners, t)
                /\ frames' = [frames EXCEPT ![t] =
                       [f EXCEPT !.pc = "loop", !.response = WithIds(remote.response, k)]]
           ELSE /\ messages' = sent
                /\ owners' = sent_owners
                /\ frames' = [frames EXCEPT ![t] =
                       [f EXCEPT !.pc = "except", !.call_raised = TRUE]]

\* lines 419-429 in handler t
TaskExcept(t) ==
    LET f == frames[t]
    IN  /\ running = t
        /\ f.pc = "except"
        /\ running' = 0
        /\ session_log' = Append(session_log, LogEvent("error"))
        /\ frames' = [frames EXCEPT ![t] =
               [f EXCEPT !.pc = "done", !.outcome = HttpError(500, "str(e)")]]
        /\ UNCHANGED <<active_connections, ws, owners, last_request>>
        /\ UNCHANGED <<messages, action_count, os_calls, probe>>
        /\ UNCHANGED asyncFixed

NextAsync ==
    \/ \E k \in BOOLEAN, env \in Envs : Startup(k, env)
    \/ \E w \in ConnIds : WsConnect(w)
    \/ \E w \in ConnIds : WsDisconnect(w)
    \/ \E w \in ConnIds : WsError(w)
    \/ \E t \in TaskIds, n \in 1 .. MaxAsyncIterations, env \in AsyncEnvs,
          remote \in AsyncRemotes : TaskStart(t, n, env, remote)
    \/ \E t \in TaskIds : TaskLoopHead(t)
    \/ \E t \in TaskIds, env \in AsyncEnvs, esc_fails \in BOOLEAN :
           TaskExecTool(t, env, esc_fails)
    \/ \E t \in TaskIds : TaskBroadcastNext(t)
    \/ \E t \in TaskIds, fails \in BOOLEAN : TaskSendDone(t, fails)
    \/ \E t \in TaskIds, remote \in AsyncRemotes : TaskContinue(t, remote)
    \/ \E t \in TaskIds : TaskExcept(t)

SpecAsync == Init /\ [][NextAsync]_vars

(***************************************************************************)
(* map_coords_from_claude on its own: the arguments are drawn from every   *)
(* canvas and screen of side at most MaxDim with points one beyond each    *)
(* edge, and the documented case of a 1233x800 canvas on a 1512x982 screen.*)
(***************************************************************************)
SmallMapInputs ==
    [x : -1 .. MaxDim + 1, y : -1 .. MaxDim + 1, vw : 1 .. MaxDim, vh : 1 .. MaxDim,
     lw : 1 .. MaxDim, lh : 1 .. MaxDim, tx : BOOLEAN, ty : BOOLEAN]

DocumentedMapInputs ==
    [x : {2000, 615, -3}, y : {900, 400}, vw : {1233}, vh : {800},
     lw : {1512}, lh : {982}, tx : {FALSE}, ty : {FALSE}]

InitMap ==
    /\ ServerInit
    /\ map_in \in SmallMapInputs \cup DocumentedMapInputs
    /\ map_out = <<>>
    /\ scale_in = NoScaleIn
    /\ scale_out = NoScaleOut
    /\ KeysIdle
    /\ AsyncIdle
    /\ UnitsIdle

MapCall ==
    /\ map_out = <<>>
    /\ map_out' = map_coords_from_claude(map_in.x, map_in.y, map_in.vw, map_in.vh,
                                         map_in.lw, map_in.lh, map_in.tx, map_in.ty)
    /\ UNCHANGED <<pc, screen, claude_screen, tools_display, client_ready,
                   action_count, os_calls, session_log, outcome, probe, map_in>>
    /\ UNCHANGED taskVars
    /\ UNCHANGED scaleVars
    /\ UNCHANGED keyVars
    /\ UNCHANGED asyncVars
    /\ UNCHANGED unitVars

NextMap == MapCall

SpecMap == InitMap /\ [][NextMap]_vars

(***************************************************************************)
(* DesktopAgent.screenshot on its own, as the orchestrator constructs the  *)
(* agent (diagnostic_mode False): the logical screen is drawn from common  *)
(* and degenerate displays, the captured frame is the logical size times   *)
(* the display's backing scale.  The vision frame computed is then used as *)
(* the canvas of map_coords_from_claude for points strictly inside it.     *)
(***************************************************************************)
ScaleWidths == {1, 100, 400, 640, 1024, 1280, 1512, 1920, 2560, 2561, 3840}
ScaleHeights == {1, 250, 400, 768, 800, 982, 1080, 1440, 2160}
BackingScales == {1, 2}

ScaleInputs ==
    {[logical |-> <<w, h>>, physical |-> <<f * w, f * h>>, tie |-> t] :
        w \in ScaleWidths, h \in ScaleHeights, f \in BackingScales, t \in BOOLEAN}

InitScale ==
    /\ ServerInit
    /\ map_in = NoMapIn
    /\ map_out = <<>>
    /\ scale_in \in ScaleInputs
    /\ scale_out = NoScaleOut
    /\ KeysIdle
    /\ AsyncIdle
    /\ UnitsIdle

\* int(n / d) for n >= 0, d > 0, where n / d was computed in floating point
\* as a product with a rounded factor.  When d does not divide n the integer
\* part is returned.  When it does, the product may fall just below the exact
\* integer (2139 * (1280 / 2139) gives 1279.9999999999998), so the outcome is
\* the parameter low: TRUE for n / d - 1, FALSE for n / d.
TruncFloat(n, d, low) ==
    LET q == n \div d
    IN  IF n % d = 0 /\ low /\ q > 0 THEN q - 1 ELSE q

\* src/agent.py, screenshot(): the size of the frame after the resize to the
\* logical screen and the resize into MAX_WIDTH x MAX_HEIGHT
root_screenshot_size(physical, logical, low) ==
    LET current == IF physical[1] > logical[1] \/ physical[2] > logical[2]
                   THEN logical ELSE physical
        current_width == current[1]
        current_height == current[2]
    IN  IF current_width > MAX_WIDTH \/ current_height > MAX_HEIGHT
        THEN IF MAX_WIDTH * current_height <= MAX_HEIGHT * current_width
             THEN \* scale_factor = MAX_WIDTH / current_width
                  <<TruncFloat(current_width * MAX_WIDTH, current_width, low),
                    TruncFloat(current_height * MAX_WIDTH, current_width, low)>>
             ELSE \* scale_factor = MAX_HEIGHT / current_height
                  <<TruncFloat(current_width * MAX_HEIGHT, current_height, low),
                    TruncFloat(current_height * MAX_HEIGHT, current_height, low)>>
        ELSE current

\* the two scalers compared by compare_approaches(), on the same display
ScaleCall(low) ==
    LET got == screenshot(scale_in.logical, FALSE, scale_in.tie)
        root == root_screenshot_size(scale_in.physical, scale_in.logical, low)
    IN  /\ ~scale_out.done
        /\ scale_out' = [done |-> TRUE, raised |-> got.raised,
                         size |-> <<got.result.w, got.result.h>>,
                         frame |-> screenshot_frame(scale_in.physical, scale_in.logical,
                                                    FALSE, scale_in.tie),
                         \* Image.resize raises for an empty size
                         root_raised |-> (root[1] = 0 \/ root[2] = 0),
                         root_size |-> root]
        /\ UNCHANGED <<pc, screen, claude_screen, tools_display, client_ready,
                       action_count, os_calls, session_log, outcome, probe, scale_in>>
        /\ UNCHANGED taskVars
        /\ UNCHANGED mapVars
        /\ UNCHANGED keyVars
        /\ UNCHANGED asyncVars
        /\ UNCHANGED unitVars

\* vision points strictly inside a canvas side of length v
InsidePoints(v) == {p \in {1, 2, 5, 8, 615, v - 2} : 0 < p /\ p < v - 1}

MapVisionPoint(x, y, tx, ty) ==
    /\ scale_out.done /\ ~scale_out.raised
    /\ map_out = <<>>
    /\ x \in InsidePoints(scale_out.frame[1])
    /\ y \in InsidePoints(scale_out.frame[2])
    /\ map_in' = [x |-> x, y |-> y, vw |-> scale_out.frame[1], vh |-> scale_out.frame[2],
                  lw |-> scale_in.logical[1], lh |-> scale_in.logical[2],
                  tx |-> tx, ty |-> ty]
    /\ map_out' = map_coords_from_claude(x, y, scale_out.frame[1], scale_out.frame[2],
                                         scale_in.logical[1], scale_in.logical[2], tx, ty)
    /\ UNCHANGED <<pc, screen, claude_screen, tools_display, client_ready,
                   action_count, os_calls, session_log, outcome, probe>>
    /\ UNCHANGED taskVars
    /\ UNCHANGED scaleVars
    /\ UNCHANGED keyVars
    /\ UNCHANGED asyncVars
    /\ UNCHANGED unitVars

NextScale ==
    \/ \E low \in BOOLEAN : ScaleCall(low)
    \/ \E x \in InsidePoints(scale_out.frame[1]), y \in InsidePoints(scale_out.frame[2]),
          tx \in BOOLEAN, ty \in BOOLEAN : MapVisionPoint(x, y, tx, ty)

SpecScale == InitScale /\ [][NextScale]_vars

(***************************************************************************)
(* src/v2/agent.py: DesktopAgent.press_key on its own.  A key sequence is  *)
(* the list of the parts key_sequence.split('+') gives.                    *)
(***************************************************************************)
MaxKeys == 3   \* the largest number of keys in one combination

KeyNames == {"cmd", "command", "ctl", "ctrl", "space", "Return", "a"}

\* str.lower() on the key names used
Lower(k) == IF k = "Return" THEN "return" ELSE k

\* key_map.get(k, k)
key_map(k) ==
    CASE k = "return" -> "enter"
      [] k = "super" -> "command"
      [] k = "cmd" -> "command"
      [] k = "ctl" -> "ctrl"
      [] k = "opt" -> "option"
      [] OTHER -> k

mapped_keys(keys) == [i \in DOMAIN keys |-> key_map(Lower(keys[i]))]

reversed(keys) == [i \in DOMAIN keys |-> keys[Len(keys) + 1 - i]]

KeyEvent(op, key) == [op |-> op, key |-> key]
KeyDowns(keys) == [i \in DOMAIN keys |-> KeyEvent("down", keys[i])]
KeyUps(keys) == [i \in DOMAIN keys |-> KeyEvent("up", keys[i])]

\* press_key releasing the keys in the order they were pressed
press_key_release_in_order(keys, fail_at) ==
    LET calls == KeyDowns(mapped_keys(keys)) \o KeyUps(mapped_keys(keys))
    IN  IF fail_at \in DOMAIN calls
        THEN [raised |-> TRUE, events |-> SubSeq(calls, 1, fail_at - 1)]
        ELSE [raised |-> FALSE, events |-> calls]

\* lines 160-198.  fail_at: the number of the pyautogui call that raises (none
\* when it is not the number of a call); the method has no try, so the
\* exception leaves it with the keys pressed so far still down.
press_key(keys, fail_at) ==
    LET calls == KeyDowns(mapped_keys(keys)) \o KeyUps(reversed(mapped_keys(keys)))
    IN  IF fail_at \in DOMAIN calls
        THEN [raised |-> TRUE, events |-> SubSeq(calls, 1, fail_at - 1)]
        ELSE [raised |-> FALSE, events |-> calls]

KeySequences == UNION {[1 .. n -> KeyNames] : n \in 1 .. MaxKeys}

InitKeys ==
    /\ ServerInit
    /\ map_in = NoMapIn
    /\ map_out = <<>>
    /\ scale_in = NoScaleIn
    /\ scale_out = NoScaleOut
    /\ key_in \in KeySequences
    /\ key_events = <<>>
    /\ key_out = NoKeyOut
    /\ AsyncIdle
    /\ UnitsIdle

PressKey(fail_at) ==
    LET got == press_key(key_in, fail_at)
    IN  /\ ~key_out.done
        /\ key_events' = got.events
        /\ key_out' = [done |-> TRUE, raised |-> got.raised]
        /\ UNCHANGED <<pc, screen, claude_screen, tools_display, client_ready,
                       action_count, os_calls, session_log, outcome, probe, key_in>>
        /\ UNCHANGED taskVars
        /\ UNCHANGED mapVars
        /\ UNCHANGED scaleVars
        /\ UNCHANGED asyncVars
        /\ UNCHANGED unitVars

NextKeys == \E fail_at \in 0 .. 2 * Len(key_in) : PressKey(fail_at)

SpecKeys == InitKeys /\ [][NextKeys]_vars

(***************************************************************************)
(* src/logger.py: ActionLogger.log_action on its own, called as            *)
(* execute_task calls it: with the action and the result dict that         *)
(* execute_action returned, which the caller goes on to use.               *)
(***************************************************************************)
MaxLogCalls == 3

\* f"<base64 image: {len(result['data'])} chars>", a string as its parts
Placeholder(data) == <<"<base64 image: ", ToString(Len(data)), " chars>">>

\* the placeholder written into the caller's dict, without result.copy()
log_action_in_place(action, result) ==
    LET log_result == IF result.type = "screenshot" /\ result.has_data
                      THEN [result EXCEPT !.data = Placeholder(result.data)]
                      ELSE result
    IN  [result |-> log_result, log_entry |-> [action |-> action, result |-> log_result]]

\* log_action: result is the caller's dict after the call, log_entry the entry
\* appended to self.actions and written to the file
log_action(action, result) ==
    LET log_result == IF result.type = "screenshot" /\ result.has_data
                      THEN [result EXCEPT !.data = Placeholder(result.data)]
                      ELSE result
    IN  [result |-> result, log_entry |-> [action |-> action, result |-> log_result]]

\* the actions execute_task logs, each with a result execute_action gives it
LogCalls ==
    { <<"screenshot", Result("screenshot", FALSE, FALSE, TRUE, <<"i", "V", "B">>)>>,
      <<"screenshot", Result("screenshot", FALSE, FALSE, TRUE, <<"i", "V", "B", "O", "R">>)>>,
      <<"left_click", Result("click", TRUE, TRUE, FALSE, <<>>)>>,
      <<"left_click", Result("click", TRUE, FALSE, FALSE, <<>>)>>,
      <<"key", Result("key_press", TRUE, TRUE, FALSE, <<>>)>> }

InitLog ==
    /\ ServerInit
    /\ map_in = NoMapIn
    /\ map_out = <<>>
    /\ scale_in = NoScaleIn
    /\ scale_out = NoScaleOut
    /\ KeysIdle
    /\ AsyncIdle
    /\ LogIdle
    /\ RunIdle

\* orchestrator.py lines 365-390: the result is logged, then its data is
\* read to build the tool result
LogActionCall(action, result) ==
    LET got == log_action(action, result)
    IN  /\ Len(actions) < MaxLogCalls
        /\ actions' = Append(actions, got.log_entry)
        /\ action_log' = Append(action_log, got.log_entry)
        /\ log_in' = [called |-> TRUE, before |-> result, after |-> got.result,
                      sent |-> got.result.data, count_before |-> Len(actions)]
        /\ UNCHANGED <<pc, screen, claude_screen, tools_display, client_ready,
                       action_count, os_calls, session_log, outcome, probe>>
        /\ UNCHANGED taskVars
        /\ UNCHANGED mapVars
        /\ UNCHANGED scaleVars
        /\ UNCHANGED keyVars
        /\ UNCHANGED asyncVars
        /\ UNCHANGED runVars

NextLog == \E call \in LogCalls : LogActionCall(call[1], call[2])

SpecLog == InitLog /\ [][NextLog]_vars

(***************************************************************************)
(* src/v2/main.py: ComputerUseAgent.run, one call.  The remote service     *)
(* either fails or answers; an answer with stop_reason tool_use carries    *)
(* tool-use blocks, which execute_tool runs without catching what the      *)
(* desktop agent raises.  The log is the sequence of event types that      *)
(* SessionLogger.log_event wrote.                                          *)
(***************************************************************************)
MAX_ITERATIONS == 50
MaxVariedTurns == 2   \* the turns in which the model varies its tool-use answers
MaxToolBlocks == 2    \* tool-use blocks in one response

RunResponse(stop_reason, has_text, blocks) ==
    [stop_reason |-> stop_reason, has_text |-> has_text, blocks |-> blocks]

\* what messages.create gives at the i-th iteration: failed, or a response;
\* raise_at is the tool-use block whose execution raises, 0 when none does
RunRemotes(i) ==
    {[failed |-> TRUE, response |-> RunResponse("", FALSE, 0), raise_at |-> 0]}
    \cup {[failed |-> FALSE, response |-> RunResponse(sr, t, 0), raise_at |-> 0] :
             sr \in {"end_turn", "max_tokens"}, t \in BOOLEAN}
    \cup {[failed |-> FALSE, response |-> RunResponse("tool_use", t, n), raise_at |-> k] :
             t \in (IF i <= MaxVariedTurns THEN BOOLEAN ELSE {TRUE}),
             n \in (IF i <= MaxVariedTurns THEN 1 .. MaxToolBlocks ELSE {1}),
             k \in 0 .. MaxToolBlocks}

\* the events of the for loop over response.content: log_tool_use, then
\* execute_tool, then log_tool_result, for each block up to one that raises
ToolEvents(blocks, raise_at) ==
    LET n == IF raise_at = 0 THEN 2 * blocks ELSE 2 * raise_at - 1
    IN  [j \in 1 .. n |-> IF j % 2 = 1 THEN "tool_use" ELSE "tool_result"]

InitRun ==
    /\ ServerInit
    /\ map_in = NoMapIn
    /\ map_out = <<>>
    /\ scale_in = NoScaleIn
    /\ scale_out = NoScaleOut
    /\ KeysIdle
    /\ AsyncIdle
    /\ LogIdle
    /\ RunIdle

runFixed == <<pc, screen, claude_screen, tools_display, client_ready, action_count,
              os_calls, session_log, outcome, probe, taskVars, mapVars, scaleVars,
              keyVars, asyncVars, logVars>>

\* lines 123-128
RunStart ==
    /\ run_pc = "idle"
    /\ run_events' = Append(run_events, "user_prompt")
    /\ run_messages' = <<"user">>
    /\ iteration' = 0
    /\ run_pc' = "while"
    /\ UNCHANGED runFixed

\* line 130: while iteration < MAX_ITERATIONS
WhileTest_run == iteration < MAX_ITERATIONS

\* lines 130-206: one pass of the while loop
RunIteration(remote) ==
    LET got == remote.response
        head == <<"iteration_start">>
        thinking == IF got.has_text THEN <<"claude_thinking">> ELSE <<>>
        examined == head \o <<"stop_reason">> \o thinking
    IN  /\ run_pc = "while"
        /\ WhileTest_run
        /\ iteration' = iteration + 1
        /\ IF remote.failed
           THEN \* except Exception: log_api_error, break
                /\ run_events' = run_events \o head \o <<"api_error">>
                /\ run_messages' = run_messages
                /\ run_pc' = "after"
           ELSE IF got.stop_reason = "tool_use"
           THEN /\ remote.raise_at <= got.blocks
                /\ run_events' = run_events \o examined
                                    \o ToolEvents(got.blocks, remote.raise_at)
                /\ IF remote.raise_at = 0
                   THEN /\ run_messages' = run_messages \o <<"assistant", "user">>
                        /\ run_pc' = "while"
                   ELSE \* execute_tool raised: run is left by the exception
                        /\ run_messages' = Append(run_messages, "assistant")
                        /\ run_pc' = "raised"
           ELSE \* log_completion, break
                /\ remote.raise_at = 0
                /\ run_events' = run_events \o examined \o <<"session_complete">>
                /\ run_messages' = Append(run_messages, "assistant")
                /\ run_pc' = "after"
        /\ UNCHANGED runFixed

\* lines 208-210, after the loop was left by its test or by a break
RunAfterLoop ==
    /\ \/ run_pc = "after"
       \/ run_pc = "while" /\ ~WhileTest_run
    /\ run_events' = IF iteration >= MAX_ITERATIONS
                     THEN Append(run_events, "max_iterations_reached")
                     ELSE run_events
    /\ run_pc' = "done"
    /\ UNCHANGED <<iteration, run_messages>>
    /\ UNCHANGED runFixed

NextRun ==
    \/ RunStart
    \/ \E remote \in RunRemotes(iteration + 1) : RunIteration(remote)
    \/ RunAfterLoop

SpecRun == InitRun /\ [][NextRun]_vars

(***************************************************************************)
(* Properties.                                                             *)
(***************************************************************************)
KnownActions == {"screenshot", "mouse_move", "left_click", "right_click",
                 "double_click", "type", "key"}

\* the assistant messages of the history: the responses received
ResponseAt(i) == i \in DOMAIN messages /\ messages[i].role = "assistant"

\* the number of tool-execution rounds: the tool-result turns sent
ToolRounds == Cardinality({i \in DOMAIN messages : messages[i].kind = "tool_result"})

\* every response received asks for a tool call and none signals end_turn
AlwaysToolUse ==
    \A i \in DOMAIN messages :
        ResponseAt(i) => messages[i].tool_uses # <<>> /\ messages[i].stop_reason # "end_turn"

\* the task ran to its return statement: no call raised
Returned_Task == pc = "done" /\ outcome.kind = "task_result"

\* C1: with max_iterations = N >= 1, when every response asks for a tool call,
\* none signals end_turn and no call fails, the loop runs exactly N rounds of
\* tool execution and returns success = false with iterations = N; no task
\* ever runs more than max_iterations rounds, and a running loop always has a
\* next step until it returns.
C1_CapEndsLoop ==
    /\ client_ready => ToolRounds <= max_iterations /\ iterations <= max_iterations
    /\ pc \in {"loop", "exec", "except"} => ENABLED Next
    /\ (Returned_Task /\ max_iterations >= 1 /\ AlwaysToolUse)
           => /\ outcome.success = FALSE
              /\ outcome.iterations = max_iterations
              /\ ToolRounds = max_iterations

C1_Witness ==
    /\ Returned_Task /\ AlwaysToolUse
    /\ max_iterations = MaxIterations /\ MaxIterations >= 2
    /\ ToolRounds = max_iterations /\ outcome.iterations = max_iterations
    /\ ~outcome.success

\* C2: every coordinate handed to pyautogui.click or pyautogui.moveTo lies in
\* [0, lw) x [0, lh) of the logical screen in force at the call.
C2_OsCoordinatesInsideScreen ==
    \A i \in DOMAIN os_calls :
        os_calls[i].op \in {"click", "moveTo"} =>
            /\ 0 <= os_calls[i].x /\ os_calls[i].x < os_calls[i].scr[1]
            /\ 0 <= os_calls[i].y /\ os_calls[i].y < os_calls[i].scr[2]

Abs(n) == IF n < 0 THEN -n ELSE n
Clamp(v, lo, hi) == IF v < lo THEN lo ELSE IF v > hi THEN hi ELSE v

\* r is a nearest integer to c * l / v, clamped to [0, l - 1]
ClampedNearest(r, c, l, v) ==
    \E q \in 0 .. (c * l) \div v + 1 :
        /\ 2 * Abs(q * v - c * l) <= v
        /\ r = Clamp(q, 0, l - 1)

\* C3: map_coords_from_claude returns, on each axis, the nearest integer to
\* clamp(x, 0, vw - 1) * lw / vw clamped to [0, lw - 1], for points inside,
\* below and beyond the canvas; (2000, 900) on a 1233x800 canvas with a
\* 1512x982 screen maps to (1511, 981).
C3_MapClampsThenScales ==
    map_out # <<>> =>
        /\ map_out[1] \in 0 .. map_in.lw - 1
        /\ map_out[2] \in 0 .. map_in.lh - 1
        /\ ClampedNearest(map_out[1], Clamp(map_in.x, 0, map_in.vw - 1), map_in.lw, map_in.vw)
        /\ ClampedNearest(map_out[2], Clamp(map_in.y, 0, map_in.vh - 1), map_in.lh, map_in.vh)
        /\ (map_in.x = 2000 /\ map_in.y = 900 /\ map_in.vw = 1233 /\ map_in.vh = 800
            /\ map_in.lw = 1512 /\ map_in.lh = 982) => map_out = <<1511, 981>>

C3_Witness ==
    /\ map_in.x = 2000 /\ map_in.y = 900 /\ map_in.vw = 1233 /\ map_in.vh = 800
    /\ map_in.lw = 1512 /\ map_in.lh = 982
    /\ map_out = <<1511, 981>>

\* C4: a task that returns after the last response received signalled end_turn
\* with no tool calls returns success = true.
C4_EndTurnMeansDone ==
    (Returned_Task /\ ResponseAt(Len(messages))
        /\ messages[Len(messages)].stop_reason = "end_turn"
        /\ messages[Len(messages)].tool_uses = <<>>)
    => outcome.success = TRUE

\* C5: every /action request is answered with the result dict of
\* execute_action, and the dict has a success key.
C5_AlwaysResultWithSuccessFlag ==
    probe.requests > 0 => outcome.kind = "action_result" /\ outcome.result.has_success

\* a computer tool use whose action type the executor does not know
UnknownAction(tool_use) ==
    /\ tool_use.name = "computer"
    /\ ~(HasKey(tool_use.input, "action") /\ tool_use.input.action \in KnownActions)

\* the tool result reporting a failure for tool use id
FailureResult(entry, id) ==
    /\ entry.tool_use_id = id
    /\ entry.content = "json"
    /\ entry.has_success /\ ~entry.success /\ entry.error

\* every tool-result turn sent to the model answers each unknown action of the
\* response before it with a failure result at the same position
C6_UnknownSentBack ==
    \A j \in DOMAIN messages :
        messages[j].kind = "tool_result" =>
            \A i \in DOMAIN messages[j - 1].tool_uses :
                UnknownAction(messages[j - 1].tool_uses[i]) =>
                    /\ i \in DOMAIN messages[j].results
                    /\ FailureResult(messages[j].results[i], messages[j - 1].tool_uses[i].id)

\* the step that executes an unknown action appends the failure result, makes
\* no pyautogui call, leaves action_count alone and stays in the for loop
C6_UnknownStep ==
    (/\ pc = "exec"
     /\ idx <= Len(response.tool_uses)
     /\ UnknownAction(response.tool_uses[idx])
     /\ idx' # idx \/ pc' # pc)
    => /\ pc' = "exec"
       /\ idx' = idx + 1
       /\ os_calls' = os_calls
       /\ Len(tool_results') = Len(tool_results) + 1
       /\ FailureResult(tool_results'[Len(tool_results')], response.tool_uses[idx].id)

C7_AlwaysResultObject ==
    (pc = "done" /\ outcome.status # 503)
    => outcome.kind = "task_result" /\ outcome.execution_log = execution_log

\* C8: once a call of the remote service has raised, the task is in its except
\* clause or over, no further remote request and no further pyautogui call is
\* made, and the task ends with the error logged and HTTP 500 carrying the
\* error text.
C8_RemoteFailureEndsTask ==
    probe.remote_failed =>
        /\ pc \in {"except", "done"}
        /\ probe.remote_calls = probe.calls_at_failure
        /\ Len(os_calls) = probe.os_at_failure
        /\ messages[Len(messages)].role = "user"
        /\ pc = "done" =>
              /\ outcome = HttpError(500, "str(e)")
              /\ session_log[Len(session_log)] = LogEvent("error")

C8_Witness ==
    /\ probe.remote_failed /\ pc = "done"
    /\ probe.calls_at_failure >= 2 /\ probe.os_at_failure >= 1
    /\ outcome.status = 500

\* C9: every call of execute_action that returns has increased action_count by
\* exactly 1.
C9_EveryCallCounts ==
    (probe.requests > 0 /\ outcome.kind = "action_result")
    => action_count = probe.count_before + 1

\* the for loop is about to map the coordinate of a tool use
MappingPoint ==
    /\ pc = "exec"
    /\ idx <= Len(response.tool_uses)
    /\ response.tool_uses[idx].name = "computer"
    /\ HasKey(response.tool_uses[idx].input, "coordinate")

\* C10: wherever a coordinate is mapped, the canvas declared in the tool schema
\* and the canvas the mapper uses both are the size of the most recent
\* screenshot sent to the model.
C10_CanvasIsLastScreenshot ==
    MappingPoint => tools_display = last_shot /\ claude_screen = last_shot

\* the results answer the tool uses one for one, in the order received
AnswersInOrder(results, tool_uses) ==
    /\ Len(results) <= Len(tool_uses)
    /\ \A i \in DOMAIN results : results[i].tool_use_id = tool_uses[i].id

\* C20: the tool calls of a response are executed in the order received, one
\* at a time: inside the for loop the results collected are those of the
\* calls before the current one, in order; a tool-result turn is sent to the
\* remote service only with the result of every tool call of the response
\* before it; and requests and responses alternate, a request being sent only
\* after the response to the previous one.
C20_ToolCallsInOrderThenRequest ==
    /\ pc = "exec" =>
           /\ idx \in 1 .. Len(response.tool_uses) + 1
           /\ Len(tool_results) = idx - 1
           /\ AnswersInOrder(tool_results, response.tool_uses)
    /\ \A j \in DOMAIN messages :
           /\ messages[j].role = (IF j % 2 = 1 THEN "user" ELSE "assistant")
           /\ messages[j].kind = "tool_result" =>
                  /\ Len(messages[j].results) = Len(messages[j - 1].tool_uses)
                  /\ AnswersInOrder(messages[j].results, messages[j - 1].tool_uses)
    /\ pc \in {"loop", "exec"} => probe.remote_calls = Len(messages) \div 2

C20_Witness ==
    \E j \in DOMAIN messages :
        /\ messages[j].kind = "tool_result"
        /\ Len(messages[j - 1].tool_uses) = 2
        /\ Len(messages[j].results) = 2
        /\ AnswersInOrder(messages[j].results, messages[j - 1].tool_uses)
        /\ ResponseAt(j + 1)
        /\ Len(os_calls) >= 1

(***************************************************************************)
(* Properties of the scaler (SpecScale).                                   *)
(***************************************************************************)
\* C13: for every logical screen with lw, lh >= 1, screenshot() completes and
\* the vision size it computed has width <= 1280 and height <= 800.
C13_VisionFitsAndCompletes ==
    scale_out.done =>
        /\ ~scale_out.raised
        /\ scale_out.frame[1] <= MAX_WIDTH
        /\ scale_out.frame[2] <= MAX_HEIGHT

\* the scale used is MAX_WIDTH / w: the width is the binding constraint
WidthBound(w, h) == MAX_WIDTH * h <= MAX_HEIGHT * w

\* C14: the vision size is within one pixel of the exactly proportional size
\* on each axis (|vw - w*s| <= 1, |vh - h*s| <= 1 for the scale s used), so
\* |vw*h - vh*w| <= w + h, and it is the same whatever the size of the
\* captured physical frame.
C14_AspectWithinOneUnit ==
    scale_out.done =>
        LET w == scale_in.logical[1]
            h == scale_in.logical[2]
            vw == scale_out.frame[1]
            vh == scale_out.frame[2]
        IN  /\ IF WidthBound(w, h)
               THEN Abs(vw * w - w * MAX_WIDTH) <= w /\ Abs(vh * w - h * MAX_WIDTH) <= w
               ELSE Abs(vw * h - w * MAX_HEIGHT) <= h /\ Abs(vh * h - h * MAX_HEIGHT) <= h
            /\ Abs(vw * h - vh * w) <= w + h
            /\ \A f \in BackingScales :
                   screenshot_frame(<<f * w, f * h>>, scale_in.logical, FALSE, scale_in.tie)
                       = scale_out.frame

C14_Witness ==
    /\ scale_out.done
    /\ scale_in.logical = <<1920, 1080>> /\ scale_in.physical = <<3840, 2160>>
    /\ scale_out.frame = <<1280, 720>>

\* C15: the scaler never upscales: vw <= lw and vh <= lh, also for a logical
\* screen that already fits inside 1280x800.
C15_NeverUpscales ==
    scale_out.done =>
        /\ scale_out.frame[1] <= scale_in.logical[1]
        /\ scale_out.frame[2] <= scale_in.logical[2]

\* |a/b - c/d| < 0.001 for positive b, d
AspectDiffSmall(a, b, c, d) == 1000 * Abs(a * d - c * b) < b * d

DocumentedScreen == scale_out.done /\ scale_in.logical = <<1512, 982>>

\* C16 as stated: a logical screen of 1512x982 gives a vision size of exactly
\* 1233x800, with an aspect difference below 0.001.
C16_Documented1233 ==
    DocumentedScreen =>
        /\ scale_out.frame = <<1233, 800>>
        /\ AspectDiffSmall(scale_out.frame[1], scale_out.frame[2], 1512, 982)

\* C16 amended: a logical screen of 1512x982 gives a vision size of exactly
\* 1232x800 (the height is the binding constraint, scale 800/982), which is
\* what screenshot() returns, with an aspect difference below 0.001.
C16_Scaled1232 ==
    DocumentedScreen =>
        /\ ~scale_out.raised
        /\ scale_out.frame = <<1232, 800>>
        /\ scale_out.size = <<1232, 800>>
        /\ ~WidthBound(1512, 982)
        /\ AspectDiffSmall(scale_out.frame[1], scale_out.frame[2], 1512, 982)

C16_Witness ==
    /\ DocumentedScreen
    /\ scale_out.size = <<1232, 800>>
    /\ scale_in.physical = <<3024, 1964>>

\* C17: a vision point strictly inside the canvas derived from the logical
\* screen, mapped to logical space by map_coords_from_claude and back by the
\* inverse scale round(x_l * vw / lw), is within 1 pixel of the original on
\* each axis.
C17_RoundTripWithinOne ==
    (scale_out.done /\ map_out # <<>>) =>
        /\ \E up \in BOOLEAN :
               Abs(RoundFloat(map_out[1] * map_in.vw, map_in.lw, up) - map_in.x) <= 1
        /\ \E up \in BOOLEAN :
               Abs(RoundFloat(map_out[2] * map_in.vh, map_in.lh, up) - map_in.y) <= 1

(***************************************************************************)
(* Properties of the mapper (SpecMap), continued.                          *)
(***************************************************************************)
\* C18: map_coords_from_claude(x, y, ...) equals map_coords_from_claude of the
\* point clamped to [0, vw - 1] x [0, vh - 1] beforehand, for points inside,
\* below and beyond the canvas; clamping the clamped point again changes
\* nothing.
C18_PreClampedMapsTheSame ==
    (map_out # <<>> /\ ~scale_out.done) =>
        LET cx == Clamp(map_in.x, 0, map_in.vw - 1)
            cy == Clamp(map_in.y, 0, map_in.vh - 1)
            pre == map_coords_from_claude(cx, cy, map_in.vw, map_in.vh,
                                          map_in.lw, map_in.lh, map_in.tx, map_in.ty)
        IN  /\ map_out = pre
            /\ pre = map_coords_from_claude(Clamp(cx, 0, map_in.vw - 1),
                                            Clamp(cy, 0, map_in.vh - 1),
                                            map_in.vw, map_in.vh, map_in.lw, map_in.lh,
                                            map_in.tx, map_in.ty)

C18_Witness ==
    /\ map_in.x = -3 /\ map_in.y = 900 /\ map_in.vw = 1233 /\ map_in.vh = 800
    /\ map_in.lw = 1512 /\ map_in.lh = 982
    /\ map_out = <<0, 981>>
    /\ ~scale_out.done

(***************************************************************************)
(* Properties of press_key (SpecKeys).                                     *)
(***************************************************************************)
\* the key a part of a combination names: lower case, aliases resolved
Alias(k) ==
    CASE k \in {"cmd", "command"} -> "command"
      [] k \in {"ctl", "ctrl"} -> "ctrl"
      [] k = "Return" -> "enter"
      [] OTHER -> k

\* C19: press_key on k1+...+kn, when every OS call succeeds, issues exactly
\* down(k1), ..., down(kn), up(kn), ..., up(k1) in that order on the keys after
\* alias normalisation; for command+space: command down, space down, space up,
\* command up.
C19_ChordReleasedInReverse ==
    (key_out.done /\ ~key_out.raised) =>
        LET n == Len(key_in)
        IN  /\ Len(key_events) = 2 * n
            /\ \A i \in 1 .. n :
                   /\ key_events[i] = KeyEvent("down", Alias(key_in[i]))
                   /\ key_events[2 * n + 1 - i] = KeyEvent("up", Alias(key_in[i]))
            /\ key_in \in {<<"command", "space">>, <<"cmd", "space">>} =>
                   key_events = <<KeyEvent("down", "command"), KeyEvent("down", "space"),
                                  KeyEvent("up", "space"), KeyEvent("up", "command")>>

C19_Witness ==
    /\ key_out.done /\ ~key_out.raised
    /\ key_in = <<"cmd", "space", "a">>
    /\ key_events = <<KeyEvent("down", "command"), KeyEvent("down", "space"),
                      KeyEvent("down", "a"), KeyEvent("up", "a"),
                      KeyEvent("up", "space"), KeyEvent("up", "command")>>

(***************************************************************************)
(* Properties of the server under asyncio (SpecAsync).                     *)
(***************************************************************************)
\* C11: whatever observers connect, disconnect or fail while a task runs,
\* broadcast_message never raises, every observer whose notification failed is
\* absent from active_connections once broadcast_message is over, and a task
\* ends with an error only when one of its remote or agent calls raised, as it
\* would with no observers.
C11_ObserversNeverAffectTask ==
    \A t \in TaskIds :
        /\ ~frames[t].broadcast_raised
        /\ frames[t].pc \in {"loop", "exec", "except", "done"} =>
               \A i \in DOMAIN frames[t].disconnected :
                   ~InList(active_connections, frames[t].disconnected[i])
        /\ (frames[t].pc = "done" /\ frames[t].outcome.status = 500) =>
               frames[t].call_raised

\* handler t is between its send_message and its return
InProgress(t) == frames[t].pc \in {"loop", "exec", "bcast", "send"}

\* C12: when /task invocations overlap, the history sent to the remote
\* service for a task holds only that task's messages, and the history of a
\* task in progress still holds its task message: the start of another task
\* has not cleared it.
C12_IndependentHistories ==
    /\ \A i \in DOMAIN last_request.owners : last_request.owners[i] = last_request.task
    /\ \A t \in TaskIds :
           InProgress(t) =>
               \E j \in DOMAIN messages : owners[j] = t /\ messages[j].kind = "task"

(***************************************************************************)
(* Properties of the /task loop (Spec, SpecLive), continued.               *)
(***************************************************************************)
\* C23: the tool-use inputs kept in the conversation history, which the
\* tool_use entries of execution_log refer to and which are resent on the next
\* turn, are those the model sent: every response in the history is one of
\* the responses of the remote service, unchanged.
C23_IssuedActionsUnchanged ==
    /\ \A j \in DOMAIN messages :
           ResponseAt(j) => \E r \in Responses : messages[j] = WithIds(r, j \div 2)
    /\ \A e \in DOMAIN execution_log :
           execution_log[e].type = "tool_use" =>
               \E r \in Responses :
                   LET at == execution_log[e].ref
                   IN  /\ at[2] \in DOMAIN r.tool_uses
                       /\ messages[at[1]].tool_uses[at[2]].input = r.tool_uses[at[2]].input

\* C27: a task returns success = true only if the last response it examined
\* has stop_reason end_turn.
C27_SuccessOnlyOnEndTurn ==
    (Returned_Task /\ outcome.success) =>
        /\ ResponseAt(Len(messages))
        /\ messages[Len(messages)].stop_reason = "end_turn"

TaskStartLogged == \E i \in DOMAIN session_log : session_log[i].type = "task_start"
TaskCompleteLogged == \E i \in DOMAIN session_log : session_log[i].type = "task_complete"

\* C30: once task_start is logged for a /task invocation, a task_complete
\* event is eventually written to the session log, however the task ends.
C30_TaskCompleteEventuallyLogged == [](TaskStartLogged => <>TaskCompleteLogged)

(***************************************************************************)
(* Properties of press_key (SpecKeys), continued.                          *)
(***************************************************************************)
\* C28: when press_key is over, by returning or by raising, every key-down
\* issued is followed by a key-up of the same key.
C28_NoKeyLeftDown ==
    key_out.done =>
        \A i \in DOMAIN key_events :
            key_events[i].op = "down" =>
                \E j \in DOMAIN key_events :
                    j > i /\ key_events[j] = KeyEvent("up", key_events[i].key)

(***************************************************************************)
(* Properties of the scalers (SpecScale), continued.                       *)
(***************************************************************************)
\* C25: for every captured frame and logical screen, the vision size of the
\* double-resize scaler (src/agent.py) and that of the single-resize scaler
\* (src/v1/agent.py) differ by at most 1 pixel on each axis.
C25_ScalersAgreeWithinOne ==
    (scale_out.done /\ ~scale_out.raised /\ ~scale_out.root_raised) =>
        /\ Abs(scale_out.root_size[1] - scale_out.size[1]) <= 1
        /\ Abs(scale_out.root_size[2] - scale_out.size[2]) <= 1

(***************************************************************************)
(* Properties of ActionLogger.log_action (SpecLog).                        *)
(***************************************************************************)
\* C29: log_action leaves the result passed to it unchanged; after logging a
\* screenshot result the caller's result still holds the image in data, which
\* is what is sent on, while the entry appended to logger.actions and written
\* to the session log holds the size placeholder; each call adds exactly one
\* entry.
C29_LogActionKeepsResult ==
    log_in.called =>
        /\ log_in.after = log_in.before
        /\ Len(actions) = log_in.count_before + 1
        /\ Len(action_log) = Len(actions)
        /\ action_log[Len(action_log)] = actions[Len(actions)]
        /\ (log_in.before.type = "screenshot" /\ log_in.before.has_data) =>
               /\ log_in.sent = log_in.before.data
               /\ actions[Len(actions)].result.data = Placeholder(log_in.before.data)

C29_Witness ==
    /\ log_in.called
    /\ log_in.before.type = "screenshot"
    /\ Len(log_in.before.data) = 5
    /\ log_in.count_before = 1
    /\ actions[Len(actions)].result.data = Placeholder(log_in.before.data)

(***************************************************************************)
(* Properties of ComputerUseAgent.run (SpecRun).                           *)
(***************************************************************************)
RunLogged(event) == \E j \in DOMAIN run_events : run_events[j] = event

\* C22: when run has returned, max_iterations_reached is logged if and only if
\* the loop used all MAX_ITERATIONS iterations without the model ending its
\* turn; a run with session_complete logged, or with a failed remote call,
\* never logs max_iterations_reached.
C22_CapAndCompletionDistinct ==
    run_pc = "done" =>
        /\ RunLogged("max_iterations_reached") <=>
               /\ iteration = MAX_ITERATIONS
               /\ ~RunLogged("session_complete")
               /\ ~RunLogged("api_error")
        /\ RunLogged("session_complete") => ~RunLogged("max_iterations_reached")
        /\ RunLogged("api_error") => ~RunLogged("max_iterations_reached")

(***************************************************************************)
(* Properties of the /task loop (Spec): recovery, failures, tool results.  *)
(***************************************************************************)
ClickOrScreenshot == {"left_click", "right_click", "double_click", "screenshot"}

\* C21: a click (left, right or double) or screenshot action requested in a
\* response whose text holds a mistake phrase is preceded by an Escape key
\* press, and no Escape is issued for any other action or text.
C21_EscapeBeforeClickOrScreenshot ==
    (probe.last_action # "" /\ ResponseAt(Len(messages))) =>
        /\ probe.recovered <=>
               /\ probe.last_action \in ClickOrScreenshot
               /\ MenuMistake(response.text_responses)
        /\ probe.recovered => \E i \in DOMAIN os_calls : os_calls[i].op = "press"

ToolUseIds(tool_uses) == [i \in DOMAIN tool_uses |-> tool_uses[i].id]
ResultIds(results) == [i \in DOMAIN results |-> results[i].tool_use_id]

\* C26: the tool results sent in a turn are one for each tool-use request of
\* the preceding response, with the same ids in the same order and nothing
\* else, also for tools other than computer, for failed actions and for turns
\* with a recovery Escape.
C26_OneResultPerToolUse ==
    \A j \in DOMAIN messages :
        messages[j].kind = "tool_result" =>
            /\ j > 1 /\ ResponseAt(j - 1)
            /\ ResultIds(messages[j].results) = ToolUseIds(messages[j - 1].tool_uses)
            /\ \A i \in DOMAIN messages[j].results :
                   (messages[j].results[i].content = "not implemented")
                       <=> (messages[j - 1].tool_uses[i].name # "computer")

\* one turn answers a response with a recovery Escape, another a response with
\* a tool other than computer and a failed key press
C26_Witness ==
    \E j, k \in DOMAIN messages :
        /\ messages[j].kind = "tool_result" /\ messages[k].kind = "tool_result"
        /\ MenuMistake(messages[j - 1].text_responses)
        /\ messages[j - 1].tool_uses[1].input.action = "left_click"
        /\ Len(messages[j].results) = 1
        /\ Len(messages[k].results) = 2
        /\ messages[k - 1].tool_uses[2].name = "bash"
        /\ messages[k].results[1].error
        /\ \E i \in DOMAIN os_calls : os_calls[i].op = "press"

====
